---- MODULE Spec2Model ----
(***************************************************************************)
(* A model of the analysis job orchestration of the GWR / MGWR / LISA      *)
(* QGIS plugin: the field-name shortening of create_safe_field_mapping,    *)
(* the shapefile export of export_layer_with_field_mapping and the         *)
(* export / script / engine / load / cleanup sequence of run_analysis.     *)
(* The three per-kind modules (gwr_analysis.py, mgwr_analysis.py,          *)
(* lisa_analysis.py) hold textually parallel copies of both; line numbers  *)
(* in the comments are those of gwr_analysis.py unless a file is named.    *)
(***************************************************************************)
EXTENDS Integers, Sequences, FiniteSets, TLC

(***************************************************************************)
(* Field names are sequences of one-character strings, so that slicing     *)
(* (name[:10], name[:8]) and the formatting of the counter are computed.   *)
(***************************************************************************)
population_density == <<"p", "o", "p", "u", "l", "a", "t", "i", "o", "n", "_", "d", "e", "n", "s", "i", "t", "y">>
population_growth == <<"p", "o", "p", "u", "l", "a", "t", "i", "o", "n", "_", "g", "r", "o", "w", "t", "h">>
populati_1 == <<"p", "o", "p", "u", "l", "a", "t", "i", "_", "1">>
population == <<"p", "o", "p", "u", "l", "a", "t", "i", "o", "n">>
pop == <<"p", "o", "p">>
population_ == <<"p", "o", "p", "u", "l", "a", "t", "i", "o", "n", "_">>

\* Bounds of the model.
\* The longest dataset field list drawn from FieldUniverse.
MaxFields == 3
\* The longest list of selected (analysis) fields.
MaxSelected == 2
\* The largest number of dataset fields sharing their first 10 characters.
MaxCollide == 101

\* The number of run_analysis calls, which may overlap in time.
NumRuns == 1
\* The number of run_analysis calls followed with their files.
NumJobs == 2
\* The largest number of dialogs opened by the plugin's launch methods.
MaxLaunches == 2
\* The largest number of features of an exported layer.
MaxFeatures == 2
\* The largest number of fields sharing their first 10 characters in an
\* exported layer.
MaxWide == 12

\* Program constants.
\* field_name[:10]
TruncWidth == 10
\* short_name[:8]
PrefixWidth == 8
\* counter < 99
CounterLimit == 99

Min(a, b) == IF a < b THEN a ELSE b

Range(f) == {f[x] : x \in DOMAIN f}

\* Python's s[:n] for n >= 0.
Take(s, n) == SubSeq(s, 1, Min(n, Len(s)))

Digit(d) == CASE d = 0 -> "0" [] d = 1 -> "1" [] d = 2 -> "2" [] d = 3 -> "3"
              [] d = 4 -> "4" [] d = 5 -> "5" [] d = 6 -> "6" [] d = 7 -> "7"
              [] d = 8 -> "8" [] d = 9 -> "9"

\* str(n) for a natural number n, as an f-string formats {counter}.
RECURSIVE Dec(_)
Dec(n) == IF n < 10 THEN <<Digit(n)>> ELSE Dec(n \div 10) \o <<Digit(n % 10)>>

\* f"{short_name[:8]}_{counter}"
Candidate(short_name, counter) == Take(short_name, PrefixWidth) \o <<"_">> \o Dec(counter)

\* A mutant of Probe: the probing starts one past the counter it is given.
RECURSIVE Probe_SkipFirst(_, _, _)
Probe_SkipFirst(short_name, used, counter) ==
    IF Candidate(short_name, counter + 1) \in used /\ counter + 1 < CounterLimit
    THEN Probe_SkipFirst(short_name, used, counter + 1)
    ELSE counter + 1

\* while f"{short_name[:8]}_{counter}" in used_names and counter < 99: counter += 1
RECURSIVE Probe(_, _, _)
Probe(short_name, used, counter) ==
    IF Candidate(short_name, counter) \in used /\ counter < CounterLimit
    THEN Probe(short_name, used, counter + 1)
    ELSE counter

\* The short name one loop iteration computes for field_name.
ShortNameFor(field_name, used) ==
    LET short_name == Take(field_name, TruncWidth)
    IN  IF short_name \in used
        THEN Candidate(short_name, Probe(short_name, used, 1))
        ELSE short_name

\* field_mapping[field_name] = short_name (a dict assignment overwrites).
Put(fm, k, v) == [x \in (DOMAIN fm) \cup {k} |-> IF x = k THEN v ELSE fm[x]]

EmptyMap == [x \in {} |-> <<>>]

\* A mutant of NewLocals: used_names outlives the call (a class-level set).
NewLocals_Stale(old_used) == [field_mapping |-> EmptyMap, used_names |-> old_used]

\* field_mapping = {} ; used_names = set()
NewLocals(old_used) == [field_mapping |-> EmptyMap, used_names |-> {}]

\* A mutant of FirstLoop: one pass over the dataset's fields names them all.
FirstLoop_Layer(selected, layer) == layer

\* The list the first loop iterates: for field_name in selected_fields.
FirstLoop(selected, layer) == selected

\* The list the second loop iterates: for field in layer_fields.
SecondLoop(selected, layer) == layer

\* A mutant of NeedsMapping: the test looks at the short name, not the key.
NeedsMapping_ByShort(field_name, fm) == Take(field_name, TruncWidth) \notin Range(fm)

\* if field_name not in field_mapping
NeedsMapping(field_name, fm) == field_name \notin DOMAIN fm

(***************************************************************************)
(* Inputs of create_safe_field_mapping.  A dataset's field list holds no   *)
(* name twice; the dialogs offer the second variable list without the      *)
(* first variable, so a selected list holds no name twice and only names   *)
(* of the dataset.                                                         *)
(***************************************************************************)
FieldUniverse == {population_density, population_growth, populati_1, population, pop}

SmallUniverse == {population_density, population_growth, populati_1}

NoDup(s) == \A i, j \in 1..Len(s) : i # j => s[i] # s[j]

ListsOver(S, n) == UNION {{s \in [1..k -> S] : NoDup(s)} : k \in 1..n}

InputsOver(U) ==
    UNION {{[layer |-> l, selected |-> s] : s \in ListsOver(Range(l), MaxSelected)} :
           l \in ListsOver(U, MaxFields)}

\* "population_<i>": names that agree on their first 10 characters.
LongName(i) == population_ \o Dec(i)

\* k fields sharing their first 10 characters, the first one or two selected.
CollisionInputs ==
    UNION {{[layer |-> [i \in 1..k |-> LongName(i - 1)],
             selected |-> [i \in 1..s |-> LongName(i - 1)]] :
               s \in 1..Min(k, MaxSelected)} : k \in 1..MaxCollide}

InputsFor(m) ==
    CASE m = "single" -> InputsOver(FieldUniverse) \cup CollisionInputs
      [] m = "collide" -> CollisionInputs
      [] OTHER -> InputsOver(SmallUniverse)

NoCall == [called |-> FALSE]

VARIABLES
    mode,             \* the inputs followed: "single", "repeat" (calls compared), "collide"
    layer_fields,     \* argument: the dataset's field names, in dataset order
    selected_fields,  \* argument: the selected field names, in caller order
    field_mapping,    \* local: {original name: short name}
    used_names,       \* local: the short names given out so far
    map_pc,           \* position in create_safe_field_mapping
    idx,              \* index of the next element of the running loop
    last_step,        \* history: the last iteration's name, used set and result
    exhausted,        \* history: an iteration found all 98 candidates taken
    history           \* history: an earlier completed call and what it returned

mapvars == <<mode, layer_fields, selected_fields, field_mapping, used_names,
             map_pc, idx, last_step, exhausted, history>>

VARIABLES
    run_pc,           \* per run: position in run_analysis
    run_kind,         \* per run: "GWR", "MGWR" or "LISA"
    temp_dir,         \* per run: the directory mkdtemp returned
    dirs,             \* the directories that exist on disk
    made,             \* history: every directory name mkdtemp has given out
    child,            \* per run: the engine process
    returncode,       \* per run: result.returncode
    retval,           \* per run: the value the return statement evaluated
    rmtree_failed,    \* per run: shutil.rmtree raised (and was swallowed)
    trace,            \* history, per run: the stage events in order
    input_shp,        \* per run: what the export left in input.shp
    output_shp,       \* per run: what the engine left in output.shp
    descendants       \* per run: the processes the engine itself started

runvars == <<run_pc, run_kind, temp_dir, dirs, made, child, returncode, retval,
             rmtree_failed, trace, input_shp, output_shp, descendants>>

VARIABLES
    exp_pc,           \* position in export_layer_with_field_mapping
    exp_layer,        \* argument: the source layer's field names and feature count
    exp_mapping,      \* argument: the field mapping
    new_fields,       \* local: the QgsFields handed to the writer
    shapefile,        \* the dataset at output_path: stored field names, features
    exp_idx,          \* number of the feature the loop is at
    exp_ret,          \* the (success, error_message) returned
    add_failed        \* history: an addFeature call did not write its feature

expvars == <<exp_pc, exp_layer, exp_mapping, new_fields, shapefile, exp_idx,
             exp_ret, add_failed>>

VARIABLES
    job_pc,           \* per job: position in run_analysis
    job_kind,         \* per job: "GWR", "MGWR" or "LISA"
    job_dir,          \* per job: its local temp_dir
    disk_dirs,        \* the directories that exist on disk
    accesses          \* history, per job: the file operations of its last step

jobvars == <<job_pc, job_kind, job_dir, disk_dirs, accesses>>

VARIABLES
    sc_pc,            \* position in the run_analysis call followed with its data
    request,          \* the arguments of the call, with the caller's dialog.r_path
    sc_mapping,       \* local: field_mapping
    sc_schema,        \* the field names of the dataset written at input_shp
    script,           \* the values interpolated into the file at script_path
    command           \* the argument list handed to subprocess.run

scvars == <<sc_pc, request, sc_mapping, sc_schema, script, command>>

VARIABLES
    copy_in,          \* the field list and selected list the copies are given
    copies            \* per kind: what its create_safe_field_mapping returned

cmpvars == <<copy_in, copies>>

VARIABLES
    pl_pc,            \* the plugin: "idle", or "dialog" while a dialog is open
    pl_kind,          \* the kind of the dialog last constructed
    dlg_r_path,       \* dialog.r_path
    config_file,      \* config.ini: absent, or the bytes of the stored path
    env_PATH,         \* os.environ["PATH"]
    progress,         \* the progress dialog: "none", "shown", "closed"
    outcome,          \* where the last launch ended
    raised,           \* the exception that left the last launch method
    launches,         \* the number of launches so far
    chosen,           \* history: the path last accepted in a chooser
    loaded,           \* history: what load_r_path returned to the last dialog
    last_event        \* history: the last thing that happened

plvars == <<pl_pc, pl_kind, dlg_r_path, config_file, env_PATH, progress, outcome,
            raised, launches, chosen, loaded, last_event>>

addvars == <<jobvars, scvars, cmpvars, plvars>>

\* What the steps of one part leave alone.
jobframe == <<mapvars, runvars, expvars, scvars, cmpvars, plvars>>
scframe == <<mapvars, runvars, expvars, jobvars, cmpvars, plvars>>
cmpframe == <<mapvars, runvars, expvars, jobvars, scvars, plvars>>
plframe == <<mapvars, runvars, expvars, jobvars, scvars, cmpvars>>

vars == <<mapvars, runvars, expvars, addvars>>

NoStep == [done |-> FALSE]

ProbesExhausted(field_name, used) ==
    /\ Take(field_name, TruncWidth) \in used
    /\ \A n \in 1..(CounterLimit - 1) : Candidate(Take(field_name, TruncWidth), n) \in used

InitMapping(m) ==
    /\ mode = m
    /\ layer_fields = <<>>
    /\ selected_fields = <<>>
    /\ field_mapping = EmptyMap
    /\ used_names = {}
    /\ map_pc = "idle"
    /\ idx = 1
    /\ last_step = NoStep
    /\ exhausted = FALSE
    /\ history = NoCall

\* Entry of create_safe_field_mapping(layer_fields, selected_fields).
MapCall ==
    /\ map_pc = "idle" \/ (mode = "repeat" /\ map_pc = "returned")
    /\ \E in \in InputsFor(mode) :
          /\ layer_fields' = in.layer
          /\ selected_fields' = in.selected
    /\ LET fresh == NewLocals(used_names)
       IN  /\ field_mapping' = fresh.field_mapping
           /\ used_names' = fresh.used_names
    /\ map_pc' = "selected_loop"
    /\ idx' = 1
    /\ last_step' = NoStep
    /\ exhausted' = FALSE
    /\ \E keep \in BOOLEAN :
          history' = IF keep /\ mode = "repeat" /\ map_pc = "returned"
                     THEN [called |-> TRUE, layer |-> layer_fields,
                           selected |-> selected_fields, mapping |-> field_mapping]
                     ELSE history
    /\ UNCHANGED mode
    /\ UNCHANGED <<runvars, expvars, addvars>>

\* One iteration's assignment: lines 43-52 and 58-67.
Assign(field_name) ==
    LET short_name == ShortNameFor(field_name, used_names)
    IN  /\ field_mapping' = Put(field_mapping, field_name, short_name)
        /\ used_names' = used_names \cup {short_name}
        /\ last_step' = [done |-> TRUE, name |-> field_name,
                         used |-> used_names, short |-> short_name]
        /\ exhausted' = (exhausted \/ ProbesExhausted(field_name, used_names))

\* for field_name in selected_fields: ...
MapStepSelected ==
    /\ map_pc = "selected_loop"
    /\ idx <= Len(FirstLoop(selected_fields, layer_fields))
    /\ Assign(FirstLoop(selected_fields, layer_fields)[idx])
    /\ idx' = idx + 1
    /\ UNCHANGED <<mode, layer_fields, selected_fields, map_pc, history>>
    /\ UNCHANGED <<runvars, expvars, addvars>>

\* The first loop is over; the second begins.
MapEndSelected ==
    /\ map_pc = "selected_loop"
    /\ idx > Len(FirstLoop(selected_fields, layer_fields))
    /\ map_pc' = "layer_loop"
    /\ idx' = 1
    /\ UNCHANGED <<mode, layer_fields, selected_fields, field_mapping, used_names,
                   last_step, exhausted, history>>
    /\ UNCHANGED <<runvars, expvars, addvars>>

\* for field in layer_fields: if field_name not in field_mapping: ...
MapStepLayer ==
    /\ map_pc = "layer_loop"
    /\ idx <= Len(SecondLoop(selected_fields, layer_fields))
    /\ LET field_name == SecondLoop(selected_fields, layer_fields)[idx]
       IN  \/ /\ NeedsMapping(field_name, field_mapping)
              /\ Assign(field_name)
           \/ /\ ~NeedsMapping(field_name, field_mapping)
              /\ UNCHANGED <<field_mapping, used_names, last_step, exhausted>>
    /\ idx' = idx + 1
    /\ UNCHANGED <<mode, layer_fields, selected_fields, map_pc, history>>
    /\ UNCHANGED <<runvars, expvars, addvars>>

\* return field_mapping
MapReturn ==
    /\ map_pc = "layer_loop"
    /\ idx > Len(SecondLoop(selected_fields, layer_fields))
    /\ map_pc' = "returned"
    /\ UNCHANGED <<mode, layer_fields, selected_fields, field_mapping, used_names,
                   idx, last_step, exhausted, history>>
    /\ UNCHANGED <<runvars, expvars, addvars>>

NextMap == MapCall \/ MapStepSelected \/ MapEndSelected \/ MapStepLayer \/ MapReturn

(***************************************************************************)
(* run_analysis.  The three kinds run the same sequence; they differ in    *)
(* the script's name and parameters, the executable and the timeout.       *)
(***************************************************************************)
Runs == 1..NumRuns

Kinds == {"GWR", "MGWR", "LISA"}

\* The names mkdtemp may return; it never returns one it returned before.
DirNames == {<<"tmp", i>> : i \in 1..NumRuns}

None == "None"

NoDir == <<>>

\* QgsVectorLayer(output_shp, "GWR_Results", "ogr"): a layer whose schema and
\* features are read from the file output.shp of directory dir.
FileLayer(dir) == [backing |-> "file", dir |-> dir]

\* The None returned in place of a result layer.
NoLayer == [backing |-> None, dir |-> NoDir]

NoReturn == [layer |-> NoLayer, message |-> None]

Append1(t, e) == t \o <<e>>

\* result is not bound before subprocess.run has returned: no exit code yet.
NoCode == -1

\* The exit codes of the engine the runs are followed for.
ExitCodes == {0, 1, 2}

\* What output.shp can be once the engine has exited: not there, there but
\* not readable as a dataset, a readable dataset without any feature, a
\* readable dataset with features.
OutputStates == {"missing", "unreadable", "empty", "valid"}

\* QgsVectorLayer.isValid(): the data source could be opened.
isValid(output) == output \in {"empty", "valid"}

\* A mutant of MessageParts: the engine-failure message holds stdout only.
MessageParts_StdoutOnly(message) ==
    IF message \in {"engine_error", "stdout"} THEN {"stdout"} ELSE {}

\* The captured streams of the engine a returned message is made of:
\* f"Erreur R :\n{result.stderr}\n\nSortie stdout:\n{result.stdout}" holds
\* both, the result.stdout returned with a result layer is stdout and nothing
\* else, the other messages hold neither.
MessageParts(message) ==
    CASE message = "engine_error" -> {"stderr", "stdout"}
      [] message = "stdout" -> {"stdout"}
      [] OTHER -> {}

InitRuns ==
    /\ run_pc = [r \in Runs |-> "idle"]
    /\ run_kind = [r \in Runs |-> None]
    /\ temp_dir = [r \in Runs |-> NoDir]
    /\ dirs = {}
    /\ made = {}
    /\ child = [r \in Runs |-> "none"]
    /\ returncode = [r \in Runs |-> NoCode]
    /\ retval = [r \in Runs |-> NoReturn]
    /\ rmtree_failed = [r \in Runs |-> FALSE]
    /\ trace = [r \in Runs |-> <<>>]
    /\ input_shp = [r \in Runs |-> "none"]
    /\ output_shp = [r \in Runs |-> "missing"]
    /\ descendants = [r \in Runs |-> "none"]

\* temp_dir = tempfile.mkdtemp(): a directory that did not exist is created.
Start(r) ==
    /\ run_pc[r] = "idle"
    /\ \E k \in Kinds : run_kind' = [run_kind EXCEPT ![r] = k]
    /\ \E d \in DirNames \ made :
          /\ temp_dir' = [temp_dir EXCEPT ![r] = d]
          /\ dirs' = dirs \cup {d}
          /\ made' = made \cup {d}
    /\ run_pc' = [run_pc EXCEPT ![r] = "try"]
    /\ UNCHANGED <<child, returncode, retval, rmtree_failed, trace,
                   input_shp, output_shp, descendants>>
    /\ UNCHANGED <<mapvars, expvars, addvars>>

\* The return statements and except clauses inside try: the value is kept and
\* control passes to the finally clause.
Leave(r, layer, message) ==
    /\ retval' = [retval EXCEPT ![r] = [layer |-> layer, message |-> message]]
    /\ run_pc' = [run_pc EXCEPT ![r] = "finally"]

\* create_safe_field_mapping, then export_layer_with_field_mapping.  The
\* writer is created and every feature is appended; or the writer is created
\* and an addFeature fails, which the export does not look at and reports as
\* success; or the writer reports an error and the run returns.
Export(r) ==
    /\ run_pc[r] = "try"
    /\ \/ /\ \E written \in {"complete", "partial"} :
                input_shp' = [input_shp EXCEPT ![r] = written]
          /\ run_pc' = [run_pc EXCEPT ![r] = "exported"]
          /\ trace' = [trace EXCEPT ![r] = Append1(@, "export_done")]
          /\ UNCHANGED retval
       \/ /\ Leave(r, NoLayer, "export_error")
          /\ UNCHANGED <<trace, input_shp>>
    /\ UNCHANGED <<run_kind, temp_dir, dirs, made, child, returncode, rmtree_failed,
                   output_shp, descendants>>
    /\ UNCHANGED <<mapvars, expvars, addvars>>

\* write_r_script_to_file: open(script_path, 'w') succeeds or raises.
WriteScript(r) ==
    /\ run_pc[r] = "exported"
    /\ \/ /\ run_pc' = [run_pc EXCEPT ![r] = "scripted"]
          /\ trace' = [trace EXCEPT ![r] = Append1(@, "script")]
          /\ UNCHANGED retval
       \/ /\ Leave(r, NoLayer, "exception")
          /\ UNCHANGED trace
    /\ UNCHANGED <<run_kind, temp_dir, dirs, made, child, returncode, rmtree_failed,
                   input_shp, output_shp, descendants>>
    /\ UNCHANGED <<mapvars, expvars, addvars>>

\* subprocess.run starts the engine, or raises when the executable is not
\* found.  The engine is a launcher: it may start processes of its own.
Spawn(r) ==
    /\ run_pc[r] = "scripted"
    /\ \/ /\ run_pc' = [run_pc EXCEPT ![r] = "waiting"]
          /\ child' = [child EXCEPT ![r] = "running"]
          /\ \E d \in {"none", "running"} :
                descendants' = [descendants EXCEPT ![r] = d]
          /\ trace' = [trace EXCEPT ![r] = Append1(@, "spawn")]
          /\ UNCHANGED retval
       \/ /\ Leave(r, NoLayer, "exception")
          /\ UNCHANGED <<child, trace, descendants>>
    /\ UNCHANGED <<run_kind, temp_dir, dirs, made, returncode, rmtree_failed,
                   input_shp, output_shp>>
    /\ UNCHANGED <<mapvars, expvars, addvars>>

\* The engine process exits by itself, its own processes with it;
\* subprocess.run returns its exit code.  What the engine has left in
\* output.shp is its own affair.
ChildExits(r) ==
    /\ run_pc[r] = "waiting"
    /\ child[r] = "running"
    /\ \E code \in ExitCodes, out \in OutputStates :
          /\ code # 0 => out = "missing"
          /\ returncode' = [returncode EXCEPT ![r] = code]
          /\ output_shp' = [output_shp EXCEPT ![r] = out]
    /\ child' = [child EXCEPT ![r] = "exited"]
    /\ descendants' = [descendants EXCEPT ![r] = IF @ = "running" THEN "exited" ELSE @]
    /\ run_pc' = [run_pc EXCEPT ![r] = "exited"]
    /\ trace' = [trace EXCEPT ![r] = Append1(@, "exit")]
    /\ UNCHANGED <<run_kind, temp_dir, dirs, made, retval, rmtree_failed, input_shp>>
    /\ UNCHANGED <<mapvars, expvars, addvars>>

\* A mutant of TimeoutExpires: subprocess.run is called without a timeout, the
\* wait ends only when the engine exits.
TimeoutExpires_NoTimeout(r) ==
    /\ run_pc[r] = "waiting"
    /\ child[r] = "exited"
    /\ Leave(r, NoLayer, "timeout")
    /\ UNCHANGED <<run_kind, temp_dir, dirs, made, child, returncode, rmtree_failed,
                   trace, input_shp, output_shp, descendants>>
    /\ UNCHANGED <<mapvars, expvars, addvars>>

\* The timeout passes first: subprocess.run kills the child, waits for it and
\* raises TimeoutExpired, which the except clause turns into a return.  The
\* kill goes to the child alone: processes the child started are not touched.
TimeoutExpires(r) ==
    /\ run_pc[r] = "waiting"
    /\ child[r] = "running"
    /\ child' = [child EXCEPT ![r] = "exited"]
    /\ trace' = [trace EXCEPT ![r] = Append1(@, "exit")]
    /\ Leave(r, NoLayer, "timeout")
    /\ UNCHANGED <<run_kind, temp_dir, dirs, made, returncode, rmtree_failed,
                   input_shp, output_shp, descendants>>
    /\ UNCHANGED <<mapvars, expvars, addvars>>

\* A mutant of ReturnEngineError: a failed engine is started once more.
ReturnEngineError_Retry(r) ==
    /\ run_pc[r] = "exited"
    /\ returncode[r] # 0
    /\ IF Cardinality({j \in 1..Len(trace[r]) : trace[r][j] = "spawn"}) < 2
          THEN /\ run_pc' = [run_pc EXCEPT ![r] = "waiting"]
               /\ child' = [child EXCEPT ![r] = "running"]
               /\ trace' = [trace EXCEPT ![r] = Append1(@, "spawn")]
               /\ UNCHANGED retval
          ELSE /\ Leave(r, NoLayer, "engine_error")
               /\ UNCHANGED <<child, trace>>
    /\ UNCHANGED <<run_kind, temp_dir, dirs, made, returncode, rmtree_failed,
                   input_shp, output_shp, descendants>>
    /\ UNCHANGED <<mapvars, expvars, addvars>>

\* if result.returncode != 0: return None, "Erreur R ..."
ReturnEngineError(r) ==
    /\ run_pc[r] = "exited"
    /\ returncode[r] # 0
    /\ Leave(r, NoLayer, "engine_error")
    /\ UNCHANGED <<run_kind, temp_dir, dirs, made, child, returncode, rmtree_failed,
                   trace, input_shp, output_shp, descendants>>
    /\ UNCHANGED <<mapvars, expvars, addvars>>

\* A mutant of LoadResult: the output is opened while the engine still runs.
LoadResult_NoWait(r) ==
    /\ run_pc[r] = "waiting"
    /\ trace' = [trace EXCEPT ![r] = Append1(@, "open")]
    /\ Leave(r, FileLayer(temp_dir[r]), "stdout")
    /\ UNCHANGED <<run_kind, temp_dir, dirs, made, child, returncode, rmtree_failed,
                   input_shp, output_shp, descendants>>
    /\ UNCHANGED <<mapvars, expvars, addvars>>

\* result_layer = QgsVectorLayer(output_shp, ...); isValid() decides between
\* return None, "Erreur lors du chargement" and return result_layer, stdout.
LoadResult(r) ==
    /\ run_pc[r] = "exited"
    /\ returncode[r] = 0
    /\ trace' = [trace EXCEPT ![r] = Append1(@, "open")]
    /\ IF isValid(output_shp[r])
          THEN Leave(r, FileLayer(temp_dir[r]), "stdout")
          ELSE Leave(r, NoLayer, "load_error")
    /\ UNCHANGED <<run_kind, temp_dir, dirs, made, child, returncode, rmtree_failed,
                   input_shp, output_shp, descendants>>
    /\ UNCHANGED <<mapvars, expvars, addvars>>

\* A mutant of Cleanup: the function returns without a finally clause.
Cleanup_Skipped(r) ==
    /\ run_pc[r] = "finally"
    /\ run_pc' = [run_pc EXCEPT ![r] = "returned"]
    /\ UNCHANGED <<run_kind, temp_dir, dirs, made, child, returncode, retval,
                   rmtree_failed, trace, input_shp, output_shp, descendants>>
    /\ UNCHANGED <<mapvars, expvars, addvars>>

\* A mutant of Cleanup: the rmtree is not wrapped, what it raises replaces the
\* value about to be returned.
Cleanup_Raises(r) ==
    /\ run_pc[r] = "finally"
    /\ trace' = [trace EXCEPT ![r] = Append1(@, "rmtree")]
    /\ \/ /\ dirs' = dirs \ {temp_dir[r]}
          /\ UNCHANGED <<rmtree_failed, retval>>
       \/ /\ rmtree_failed' = [rmtree_failed EXCEPT ![r] = TRUE]
          /\ retval' = [retval EXCEPT ![r] = [layer |-> NoLayer, message |-> "raised"]]
          /\ UNCHANGED dirs
    /\ run_pc' = [run_pc EXCEPT ![r] = "returned"]
    /\ UNCHANGED <<run_kind, temp_dir, made, child, returncode,
                   input_shp, output_shp, descendants>>
    /\ UNCHANGED <<mapvars, expvars, addvars>>

\* finally: try: shutil.rmtree(temp_dir) except: pass; then the function
\* returns.  rmtree removes the directory, or raises and leaves it.
Cleanup(r) ==
    /\ run_pc[r] = "finally"
    /\ trace' = [trace EXCEPT ![r] = Append1(@, "rmtree")]
    /\ \/ /\ dirs' = dirs \ {temp_dir[r]}
          /\ UNCHANGED rmtree_failed
       \/ /\ rmtree_failed' = [rmtree_failed EXCEPT ![r] = TRUE]
          /\ UNCHANGED dirs
    /\ run_pc' = [run_pc EXCEPT ![r] = "returned"]
    /\ UNCHANGED <<run_kind, temp_dir, made, child, returncode, retval,
                   input_shp, output_shp, descendants>>
    /\ UNCHANGED <<mapvars, expvars, addvars>>

(***************************************************************************)
(* export_layer_with_field_mapping, called with the layer's fields and the *)
(* mapping create_safe_field_mapping returned for them, as run_analysis    *)
(* calls it.                                                               *)
(***************************************************************************)
\* One loop iteration of create_safe_field_mapping on the two locals.
AssignTo(st, field_name) ==
    LET short_name == ShortNameFor(field_name, st.used_names)
    IN  [field_mapping |-> Put(st.field_mapping, field_name, short_name),
         used_names |-> st.used_names \cup {short_name}]

\* A for loop from element i on; checked: the body is under
\* "if field_name not in field_mapping".
RECURSIVE Iterate(_, _, _, _)
Iterate(list, i, st, checked) ==
    IF i > Len(list) THEN st
    ELSE Iterate(list, i + 1,
                 IF checked /\ ~NeedsMapping(list[i], st.field_mapping)
                 THEN st ELSE AssignTo(st, list[i]),
                 checked)

\* The dict a whole call returns.
create_safe_field_mapping(layer, selected) ==
    LET first == Iterate(FirstLoop(selected, layer), 1, NewLocals({}), FALSE)
    IN  Iterate(SecondLoop(selected, layer), 1, first, TRUE).field_mapping

\* QgsFields.append: a field whose name the container already holds is
\* rejected.
AppendField(fields, name) == IF name \in Range(fields) THEN fields ELSE Append1(fields, name)

\* new_fields: the layer's fields in their order, each renamed when its name
\* is a key of the mapping.
RECURSIVE Renamed(_, _, _)
Renamed(fields, fm, i) ==
    IF i = 0 THEN <<>>
    ELSE AppendField(Renamed(fields, fm, i - 1),
                     IF fields[i] \in DOMAIN fm THEN fm[fields[i]] ELSE fields[i])

\* The position of a name in a field list (QgsFields.lookupField).
FieldIndex(fields, name) == CHOOSE j \in 1..Len(fields) : fields[j] = name

\* The value the source layer's feature f holds at field position j.
Value(f, j) == <<"value", f, j>>

\* feature.attribute(name)
attribute(f, fields, name) == Value(f, FieldIndex(fields, name))

\* new_feature = QgsFeature(new_fields); setAttribute(i, feature.attribute(
\* field.name())) for the i-th field of the layer; an i past the last
\* attribute of new_feature sets nothing.
NewFeature(f, fields, target) ==
    [i \in 1..Len(target) |-> attribute(f, fields, fields[i])]

\* The shapefile's attribute names hold 10 characters.
Stored(fields) == [i \in 1..Len(fields) |-> Take(fields[i], TruncWidth)]

NoFile == [fields |-> <<>>, features |-> <<>>, exists |-> FALSE]

NoResult == [success |-> None, error |-> None]

\* The layers the export is followed for: their fields with the variables
\* selected from them, up to MaxWide fields sharing their first 10
\* characters, and up to MaxFeatures features.
ExportInputs ==
    InputsOver(FieldUniverse) \cup {in \in CollisionInputs : Len(in.layer) <= MaxWide}

InitExport ==
    /\ exp_pc = "idle"
    /\ exp_layer = [fields |-> <<>>, count |-> 0]
    /\ exp_mapping = EmptyMap
    /\ new_fields = <<>>
    /\ shapefile = NoFile
    /\ exp_idx = 1
    /\ exp_ret = NoResult
    /\ add_failed = FALSE

\* The call up to the check of writer.hasError(): new_fields is built and
\* the writer created, or the writer reports an error and the call returns
\* (False, "Erreur lors de la création du shapefile: ...").
ExportCreate ==
    /\ exp_pc = "idle"
    /\ \E in \in ExportInputs, n \in 0..MaxFeatures :
          LET fm == create_safe_field_mapping(in.layer, in.selected)
              target == Renamed(in.layer, fm, Len(in.layer))
          IN  /\ exp_layer' = [fields |-> in.layer, count |-> n]
              /\ exp_mapping' = fm
              /\ new_fields' = target
              /\ \/ /\ shapefile' = [fields |-> Stored(target), features |-> <<>>,
                                    exists |-> TRUE]
                    /\ exp_pc' = "features"
                    /\ UNCHANGED exp_ret
                 \/ /\ shapefile' = NoFile
                    /\ exp_ret' = [success |-> FALSE, error |-> "creation"]
                    /\ exp_pc' = "returned"
    /\ UNCHANGED <<exp_idx, add_failed>>
    /\ UNCHANGED <<mapvars, runvars, addvars>>

\* One iteration of for feature in layer.getFeatures(): the feature is
\* written, or addFeature returns False and nothing is written; the loop
\* goes on in both cases, for the value addFeature returns is not looked at.
ExportFeature ==
    /\ exp_pc = "features"
    /\ exp_idx <= exp_layer.count
    /\ \/ /\ shapefile' = [shapefile EXCEPT !.features =
                Append1(@, NewFeature(exp_idx, exp_layer.fields, new_fields))]
          /\ UNCHANGED add_failed
       \/ /\ add_failed' = TRUE
          /\ UNCHANGED shapefile
    /\ exp_idx' = exp_idx + 1
    /\ UNCHANGED <<exp_pc, exp_layer, exp_mapping, new_fields, exp_ret>>
    /\ UNCHANGED <<mapvars, runvars, addvars>>

\* del writer; return True, None
ExportReturn ==
    /\ exp_pc = "features"
    /\ exp_idx > exp_layer.count
    /\ exp_ret' = [success |-> TRUE, error |-> None]
    /\ exp_pc' = "returned"
    /\ UNCHANGED <<exp_layer, exp_mapping, new_fields, shapefile, exp_idx, add_failed>>
    /\ UNCHANGED <<mapvars, runvars, addvars>>

NextExport == ExportCreate \/ ExportFeature \/ ExportReturn

(***************************************************************************)
(* Calls of run_analysis that overlap in time, followed by the files they  *)
(* touch.  Every path a call uses is os.path.join(temp_dir, name) of its   *)
(* own local temp_dir; the engine is given these paths in the script.      *)
(***************************************************************************)
Jobs == 1..NumJobs

\* The names mkdtemp can return.  A name can come back once the directory
\* that bore it has been removed.
TempNames == {<<"tmp", i>> : i \in 1..(NumJobs + 1)}

\* script_path = os.path.join(temp_dir, "gwr_analysis.R") and its two copies
ScriptName(kind) ==
    CASE kind = "GWR" -> "gwr_analysis.R"
      [] kind = "MGWR" -> "mgwr_analysis.R"
      [] kind = "LISA" -> "lisa_analysis.R"

\* os.path.join(temp_dir, name)
Join(dir, name) == <<dir, name>>

\* A job is inside run_analysis.
Running(j) == job_pc[j] \notin {"idle", "returned"}

\* One file operation of job j, noted with whether the directory of the
\* path is one another running job holds.
Access(j, op, path) ==
    [op |-> op, path |-> path,
     shared |-> \E o \in Jobs : o # j /\ Running(o) /\ job_dir[o] = path[1]]

InitJobs ==
    /\ job_pc = [j \in Jobs |-> "idle"]
    /\ job_kind = [j \in Jobs |-> None]
    /\ job_dir = [j \in Jobs |-> NoDir]
    /\ disk_dirs = {}
    /\ accesses = [j \in Jobs |-> {}]

\* A mutant of mkdtemp: one fixed directory under the system's temp folder.
mkdtemp_Fixed(existing) == {<<"tmp", 1>>}

\* tempfile.mkdtemp(): creates a directory under a name no existing
\* directory bears, and returns it.
mkdtemp(existing) == TempNames \ existing

\* temp_dir = tempfile.mkdtemp() and the three os.path.join lines.
JobStart(j) ==
    /\ job_pc[j] = "idle"
    /\ \E k \in Kinds : job_kind' = [job_kind EXCEPT ![j] = k]
    /\ \E d \in mkdtemp(disk_dirs) :
          /\ job_dir' = [job_dir EXCEPT ![j] = d]
          /\ disk_dirs' = disk_dirs \cup {d}
    /\ job_pc' = [job_pc EXCEPT ![j] = "try"]
    /\ UNCHANGED accesses
    /\ UNCHANGED jobframe

\* export_layer_with_field_mapping(layer, input_shp, field_mapping) writes
\* input.shp, or reports an error and the call returns.
JobExport(j) ==
    /\ job_pc[j] = "try"
    /\ accesses' = [accesses EXCEPT ![j] = {Access(j, "write", Join(job_dir[j], "input.shp"))}]
    /\ \E next \in {"exported", "finally"} : job_pc' = [job_pc EXCEPT ![j] = next]
    /\ UNCHANGED <<job_kind, job_dir, disk_dirs>>
    /\ UNCHANGED jobframe

\* write_r_script_to_file(script_path, input_shp, output_shp, ...)
JobScript(j) ==
    /\ job_pc[j] = "exported"
    /\ accesses' = [accesses EXCEPT ![j] = {Access(j, "write", Join(job_dir[j], ScriptName(job_kind[j])))}]
    /\ job_pc' = [job_pc EXCEPT ![j] = "scripted"]
    /\ UNCHANGED <<job_kind, job_dir, disk_dirs>>
    /\ UNCHANGED jobframe

\* subprocess.run([..., script_path]): the engine reads the script, reads
\* st_read("{shapefile_path}") and writes st_write(..., "{output_path}");
\* it exits with code 0 or the call returns a failure.
JobEngine(j) ==
    /\ job_pc[j] = "scripted"
    /\ accesses' = [accesses EXCEPT ![j] = {Access(j, "read", Join(job_dir[j], ScriptName(job_kind[j]))),
           Access(j, "read", Join(job_dir[j], "input.shp")),
           Access(j, "write", Join(job_dir[j], "output.shp"))}]
    /\ \E next \in {"ran", "finally"} : job_pc' = [job_pc EXCEPT ![j] = next]
    /\ UNCHANGED <<job_kind, job_dir, disk_dirs>>
    /\ UNCHANGED jobframe

\* result_layer = QgsVectorLayer(output_shp, ...)
JobLoad(j) ==
    /\ job_pc[j] = "ran"
    /\ accesses' = [accesses EXCEPT ![j] = {Access(j, "read", Join(job_dir[j], "output.shp"))}]
    /\ job_pc' = [job_pc EXCEPT ![j] = "finally"]
    /\ UNCHANGED <<job_kind, job_dir, disk_dirs>>
    /\ UNCHANGED jobframe

\* finally: shutil.rmtree(temp_dir), which removes the directory or raises
\* and is swallowed.
JobCleanup(j) ==
    /\ job_pc[j] = "finally"
    /\ accesses' = [accesses EXCEPT ![j] = {Access(j, "delete", Join(job_dir[j], ""))}]
    /\ \/ disk_dirs' = disk_dirs \ {job_dir[j]}
       \/ UNCHANGED disk_dirs
    /\ job_pc' = [job_pc EXCEPT ![j] = "returned"]
    /\ UNCHANGED <<job_kind, job_dir>>
    /\ UNCHANGED jobframe

NextJobs ==
    \E j \in Jobs :
        \/ JobStart(j)
        \/ JobExport(j)
        \/ JobScript(j)
        \/ JobEngine(j)
        \/ JobLoad(j)
        \/ JobCleanup(j)

(***************************************************************************)
(* The copies of create_safe_field_mapping in the MGWR and LISA modules,   *)
(* each translated from its own text.                                      *)
(***************************************************************************)
\* MGWRAnalysisModule.create_safe_field_mapping: the while loop,
\* while f"{short_name[:8]}_{counter}" in used_names and counter < 99
RECURSIVE MGWR_counter(_, _, _)
MGWR_counter(short_name, used, counter) ==
    IF (Take(short_name, 8) \o <<"_">> \o Dec(counter)) \in used /\ counter < 99
    THEN MGWR_counter(short_name, used, counter + 1)
    ELSE counter

\* MGWRAnalysisModule.create_safe_field_mapping: the body of both loops, on
\* the locals field_mapping and used_names.
MGWR_assign(loc, field_name) ==
    LET first == Take(field_name, 10)
        short_name ==
            IF first \in loc.used_names
            THEN Take(first, 8) \o <<"_">> \o Dec(MGWR_counter(first, loc.used_names, 1))
            ELSE first
    IN  [field_mapping |-> Put(loc.field_mapping, field_name, short_name),
         used_names |-> loc.used_names \cup {short_name}]

\* for field_name in selected_fields
RECURSIVE MGWR_selected_loop(_, _, _)
MGWR_selected_loop(selected, i, loc) ==
    IF i > Len(selected) THEN loc
    ELSE MGWR_selected_loop(selected, i + 1, MGWR_assign(loc, selected[i]))

\* for field in layer_fields: if field_name not in field_mapping
RECURSIVE MGWR_layer_loop(_, _, _)
MGWR_layer_loop(layer, i, loc) ==
    IF i > Len(layer) THEN loc
    ELSE MGWR_layer_loop(layer, i + 1,
                        IF layer[i] \notin DOMAIN loc.field_mapping
                        THEN MGWR_assign(loc, layer[i])
                        ELSE loc)

\* MGWRAnalysisModule.create_safe_field_mapping(layer_fields, selected_fields)
MGWR_create_safe_field_mapping(layer, selected) ==
    MGWR_layer_loop(layer, 1,
        MGWR_selected_loop(selected, 1,
            [field_mapping |-> EmptyMap, used_names |-> {}])).field_mapping

\* LISAAnalysisModule.create_safe_field_mapping: the while loop,
\* while f"{short_name[:8]}_{counter}" in used_names and counter < 99
RECURSIVE LISA_counter(_, _, _)
LISA_counter(short_name, used, counter) ==
    IF (Take(short_name, 8) \o <<"_">> \o Dec(counter)) \in used /\ counter < 99
    THEN LISA_counter(short_name, used, counter + 1)
    ELSE counter

\* LISAAnalysisModule.create_safe_field_mapping: the body of both loops, on
\* the locals field_mapping and used_names.
LISA_assign(loc, field_name) ==
    LET first == Take(field_name, 10)
        short_name ==
            IF first \in loc.used_names
            THEN Take(first, 8) \o <<"_">> \o Dec(LISA_counter(first, loc.used_names, 1))
            ELSE first
    IN  [field_mapping |-> Put(loc.field_mapping, field_name, short_name),
         used_names |-> loc.used_names \cup {short_name}]

\* for field_name in selected_fields
RECURSIVE LISA_selected_loop(_, _, _)
LISA_selected_loop(selected, i, loc) ==
    IF i > Len(selected) THEN loc
    ELSE LISA_selected_loop(selected, i + 1, LISA_assign(loc, selected[i]))

\* for field in layer_fields: if field_name not in field_mapping
RECURSIVE LISA_layer_loop(_, _, _)
LISA_layer_loop(layer, i, loc) ==
    IF i > Len(layer) THEN loc
    ELSE LISA_layer_loop(layer, i + 1,
                        IF layer[i] \notin DOMAIN loc.field_mapping
                        THEN LISA_assign(loc, layer[i])
                        ELSE loc)

\* A mutant of LISA_create_safe_field_mapping: the dataset's fields are
\* named before the selected ones.
LISA_create_safe_field_mapping_LayerFirst(layer, selected) ==
    LISA_selected_loop(selected, 1,
        LISA_layer_loop(layer, 1,
            [field_mapping |-> EmptyMap, used_names |-> {}])).field_mapping

\* LISAAnalysisModule.create_safe_field_mapping(layer_fields, selected_fields)
LISA_create_safe_field_mapping(layer, selected) ==
    LISA_layer_loop(layer, 1,
        LISA_selected_loop(selected, 1,
            [field_mapping |-> EmptyMap, used_names |-> {}])).field_mapping

\* The copy of one module.
CopyOf(k, layer, selected) ==
    CASE k = "GWR" -> create_safe_field_mapping(layer, selected)
      [] k = "MGWR" -> MGWR_create_safe_field_mapping(layer, selected)
      [] k = "LISA" -> LISA_create_safe_field_mapping(layer, selected)

\* The lists the copies are compared on.
CopyInputs == ExportInputs

(***************************************************************************)
(* One run_analysis call followed with its data: the arguments, the        *)
(* mapping, the schema of the exported dataset, the values interpolated    *)
(* into the script and the command spawned.  The arguments are those the   *)
(* dialogs' getters produce and the launch methods' validation lets        *)
(* through; the criterion also takes "BIC", which the docstring of the     *)
(* MGWR writer lists.                                                      *)
(***************************************************************************)
\* Python's None where a field name is expected.
NoneName == <<"None">>

\* f"{v}" of a field name or of None
StrName(v) == IF v = NoneName THEN <<"N", "o", "n", "e">> ELSE v

\* The truth value of a name: None and "" are false.
Truthy(v) == v # NoneName /\ v # <<>>

\* str(n) for a natural number n, as text.
RECURSIVE StrNat(_)
StrNat(n) == IF n < 10 THEN Digit(n) ELSE StrNat(n \div 10) \o Digit(n % 10)

\* An int, and a float with its fraction in the given number of places.
IntValue(n) == [type |-> "int", whole |-> n, frac |-> 0, places |-> 0]
FloatValue(w, f, p) == [type |-> "float", whole |-> w, frac |-> f, places |-> p]

RECURSIVE Zeros(_)
Zeros(n) == IF n <= 0 THEN "" ELSE "0" \o Zeros(n - 1)

\* f"{x}" of a number: 50 gives "50", 1000.0 gives "1000.0", 0.01 gives "0.01".
StrNumber(x) ==
    IF x.type = "int" THEN StrNat(x.whole)
    ELSE StrNat(x.whole) \o "." \o Zeros(x.places - Len(StrNat(x.frac))) \o StrNat(x.frac)

\* str(adaptive).upper()
StrUpper(b) == IF b THEN "TRUE" ELSE "FALSE"

\* The dialogs' kernels dictionary.
KernelNames == {"gaussian", "bisquare", "tricube", "exponential", "boxcar"}

\* kernel_names.get(kernel_type, "gaussian")
KernelName(kernel_type) == IF kernel_type \in KernelNames THEN kernel_type ELSE "gaussian"

\* if bandwidth_type == 1: "CV" elif bandwidth_type == 2: "AIC" else: None
Approach(bandwidth_type) ==
    CASE bandwidth_type = 1 -> "CV"
      [] bandwidth_type = 2 -> "AIC"
      [] OTHER -> None

\* A mutant of BwValue: the two manual values are taken for one another.
BwValue_Swapped(adaptive, bandwidth_value, neighbors) ==
    IF adaptive THEN bandwidth_value ELSE neighbors

\* if adaptive: bw_value = neighbors else: bw_value = bandwidth_value
BwValue(adaptive, bandwidth_value, neighbors) ==
    IF adaptive THEN neighbors ELSE bandwidth_value

\* A mutant of BandwidthCode: the selection call is written whatever the
\* approach is.
BandwidthCode_Always(appr, kernel_name, adaptive, bandwidth_value, neighbors) ==
    [bw_call |-> "bw.gwr", bw_approach |-> appr, bw_kernel |-> kernel_name,
     bw_adaptive |-> StrUpper(adaptive)]

\* bandwidth_code: under "if approach:" the call of bw.gwr with the
\* approach, else "bw <- {bw_value}".
BandwidthCode(appr, kernel_name, adaptive, bandwidth_value, neighbors) ==
    IF appr # None /\ appr # ""
    THEN [bw_call |-> "bw.gwr", bw_approach |-> appr, bw_kernel |-> kernel_name,
          bw_adaptive |-> StrUpper(adaptive)]
    ELSE [bw_call |-> "bw <-",
          bw_value |-> StrNumber(BwValue(adaptive, bandwidth_value, neighbors))]

\* standardize_code: vars_to_scale <- c({vars_list}) under "if standardize:"
VarsToScale(dependent_var, independent_vars, standardize) ==
    IF standardize THEN <<(<<dependent_var>> \o independent_vars)>> ELSE <<>>

\* GWRAnalysisModule.write_r_script_to_file: the values the file holds.
\* lists: the variable lists (vars_to_scale, required_vars, the right side
\* of the formula); names: the names interpolated one by one.
GWR_write_r_script_to_file(shapefile_path, output_path, dependent_var, independent_vars, kernel_name, appr, adaptive, bandwidth_value, neighbors, standardize, robust) ==
    [reads |-> shapefile_path,
     writes |-> output_path,
     lists |-> VarsToScale(dependent_var, independent_vars, standardize)
                 \o << <<dependent_var>> \o independent_vars, independent_vars >>,
     names |-> <<dependent_var>>,
     slots |-> BandwidthCode(appr, kernel_name, adaptive, bandwidth_value, neighbors)
                 @@ [gwr_function |-> IF robust THEN "gwr.robust" ELSE "gwr.basic",
                     kernel |-> kernel_name,
                     adaptive |-> StrUpper(adaptive)]]

\* A mutant of ApproachGwmodel: the criterion chosen is handed on as it is.
ApproachGwmodel_AsChosen(criterion) == criterion

\* approach_gwmodel: "AICc" for "AICc", "AICc" for "AIC" (# Pas d'AIC seul,
\* on utilise AICc), "CV" for "CV", "AICc" for anything else.
ApproachGwmodel(criterion) ==
    CASE criterion = "AICc" -> "AICc"
      [] criterion = "AIC" -> "AICc"
      [] criterion = "CV" -> "CV"
      [] OTHER -> "AICc"

\* criterion_gwmodel = "dCVR"
CriterionGwmodel(criterion) == "dCVR"

\* MGWRAnalysisModule.write_r_script_to_file: the values the file holds.
\* lists: vars_to_scale, required_vars, the right side of the formula, the
\* list counted for n_vars, the list after "Intercept" in var_names.
MGWR_write_r_script_to_file(shapefile_path, output_path, dependent_var, independent_vars, kernel_name, adaptive, standardize, criterion, max_iter, tolerance) ==
    [reads |-> shapefile_path,
     writes |-> output_path,
     lists |-> VarsToScale(dependent_var, independent_vars, standardize)
                 \o << <<dependent_var>> \o independent_vars, independent_vars,
                       independent_vars, independent_vars >>,
     names |-> <<dependent_var>>,
     slots |-> [approach |-> ApproachGwmodel(criterion),
                criterion |-> CriterionGwmodel(criterion),
                kernel |-> kernel_name,
                adaptive |-> StrUpper(adaptive),
                max_iterations |-> StrNumber(max_iter),
                threshold |-> StrNumber(tolerance)]]

\* The names one block of the LISA script holds: those of its univariate
\* text when analysis_type is "univariate", those of the other text else.
Block(analysis_type, univariate, other) ==
    IF analysis_type = "univariate" THEN univariate ELSE other

\* The last block concatenates the names: "..." + variable + "..." and,
\* when not univariate, + variable2 + "...", which raises TypeError for None.
ConcatRaises(analysis_type, variable2) ==
    analysis_type # "univariate" /\ variable2 = NoneName

\* LISAAnalysisModule.write_r_script_to_file: the values the file holds.
\* names: in the order of the file, the checks of the variable, var2_check,
\* standardize_code, the count of missing values, var2_na_check,
\* complete_cases_code, var_extract_code, var_df, lisa_calc_code.
LISA_write_r_script_to_file(shapefile_path, output_path, analysis_type, variable, variable2, contiguity_type, order, standardize_weights, significance, standardize_var) ==
    LET v == StrName(variable)
        w == StrName(variable2)
    IN  [reads |-> shapefile_path,
         writes |-> output_path,
         lists |-> <<>>,
         names |-> <<v, v>>
                     \o (IF analysis_type = "bivariate" THEN <<w, w>> ELSE <<>>)
                     \o (IF standardize_var
                         THEN Block(analysis_type, <<v, v>>, <<v, v, w, w>>)
                         ELSE <<>>)
                     \o <<v, v>>
                     \o (IF analysis_type = "bivariate" THEN <<w, w>> ELSE <<>>)
                     \o Block(analysis_type, <<v>>, <<v, w>>)
                     \o Block(analysis_type, <<v, v>>, <<v, w, v, w>>)
                     \o Block(analysis_type, <<v>>, <<v, w>>)
                     \o Block(analysis_type, <<v>>, <<v, w>>),
         slots |-> [contiguity_type |-> contiguity_type,
                    order |-> StrNumber(order),
                    standardize_weights |-> StrUpper(standardize_weights),
                    significance |-> StrNumber(significance)]]

NoScript == [reads |-> None, writes |-> None, lists |-> <<>>, names |-> <<>>,
             slots |-> [x \in {} |-> ""]]

\* The engine path the user configured, as the dialog holds it: None when
\* nothing was configured.
RPaths == {None, "C:/R/bin/Rscript.exe"}

\* subprocess.run(['Rscript', script_path], ...) of the GWR and LISA
\* modules, subprocess.run([r_path, script_path], ...) of the MGWR module.
Command(kind, r_path, script_path) ==
    CASE kind = "GWR" -> <<"Rscript", script_path>>
      [] kind = "MGWR" -> <<r_path, script_path>>
      [] kind = "LISA" -> <<"Rscript", script_path>>

NoCommand == <<>>

\* The temp_dir of the call followed.
ScriptDir == <<"tmp", 1>>

\* Datasets with two fields or more, a dependent variable and the
\* independent variables selected among the other fields.
SmallSelections ==
    UNION {{[layer |-> l, dependent_var |-> d, independent_vars |-> iv] :
              d \in Range(l), iv \in ListsOver(Range(l), MaxSelected)} :
           l \in {l \in ListsOver(SmallUniverse, MaxFields) : Len(l) >= 2}}

\* k fields sharing their first 10 characters, all of them selected.
WideSelections ==
    {[layer |-> [i \in 1..k |-> LongName(i - 1)],
      dependent_var |-> LongName(0),
      independent_vars |-> [i \in 1..(k - 1) |-> LongName(i)]] : k \in 2..MaxWide}

\* populate_independent_vars leaves the dependent variable out of the list.
Selections ==
    {s \in SmallSelections : s.dependent_var \notin Range(s.independent_vars)}
        \cup WideSelections

\* The arguments of GWRAnalysisModule.run_analysis; r_path is dialog.r_path
\* of the caller, for which the function has no parameter.
GWRRequests ==
    {[kind |-> "GWR", r_path |-> p, layer |-> s.layer,
      dependent_var |-> s.dependent_var, independent_vars |-> s.independent_vars,
      kernel_type |-> kt, bandwidth_type |-> bt,
      bandwidth_value |-> FloatValue(1000, 0, 1), adaptive |-> ad,
      neighbors |-> IntValue(50), standardize |-> st, robust |-> rb] :
        p \in RPaths, s \in Selections, kt \in {"gaussian", "boxcar"},
        bt \in {1, 2, 3}, ad \in BOOLEAN, st \in BOOLEAN, rb \in BOOLEAN}

Criteria == {"AICc", "AIC", "BIC", "CV"}

\* The arguments of MGWRAnalysisModule.run_analysis.
MGWRRequests ==
    {[kind |-> "MGWR", r_path |-> p, layer |-> s.layer,
      dependent_var |-> s.dependent_var, independent_vars |-> s.independent_vars,
      kernel_type |-> kt, adaptive |-> ad, standardize |-> st, criterion |-> c,
      max_iter |-> IntValue(200), tolerance |-> FloatValue(0, 1, 2)] :
        p \in RPaths, s \in Selections, kt \in {"gaussian", "bisquare"},
        ad \in BOOLEAN, st \in BOOLEAN, c \in Criteria}

\* get_variable2: the second variable when "bivariate" is checked, a field
\* other than the first, None else.
SecondVariables(layer, variable) ==
    {[analysis_type |-> "univariate", variable2 |-> NoneName]}
        \cup {[analysis_type |-> "bivariate", variable2 |-> w] :
                w \in Range(layer) \ {variable}}

\* The arguments of LISAAnalysisModule.run_analysis; r_path as for GWR.
LISARequests ==
    UNION {{[kind |-> "LISA", r_path |-> p, layer |-> l,
             analysis_type |-> t.analysis_type, variable |-> v,
             variable2 |-> t.variable2, contiguity_type |-> ct,
             order |-> IntValue(1), standardize_weights |-> sw,
             significance |-> FloatValue(0, 5, 2), standardize_var |-> sv] :
               p \in RPaths, t \in SecondVariables(l, v), ct \in {"queen", "rook"},
               sw \in BOOLEAN, sv \in BOOLEAN} :
           l \in ListsOver(SmallUniverse, MaxFields), v \in SmallUniverse}

Requests == GWRRequests \cup MGWRRequests
                \cup {r \in LISARequests : r.variable \in Range(r.layer)}

NoRequest == [kind |-> None]

InitScript ==
    /\ sc_pc = "idle"
    /\ request = NoRequest
    /\ sc_mapping = EmptyMap
    /\ sc_schema = <<>>
    /\ script = NoScript
    /\ command = NoCommand

\* all_selected_fields = [dependent_var] + independent_vars (GWR, MGWR);
\* selected_fields = [variable], with variable2 appended under
\* "if analysis_type == 'bivariate' and variable2" (LISA).
SelectedFields(req) ==
    IF req.kind = "LISA"
    THEN <<req.variable>> \o (IF req.analysis_type = "bivariate" /\ Truthy(req.variable2)
                               THEN <<req.variable2>> ELSE <<>>)
    ELSE <<req.dependent_var>> \o req.independent_vars

\* The call is made.
ScCall ==
    /\ sc_pc = "idle"
    /\ \E req \in Requests : request' = req
    /\ sc_pc' = "called"
    /\ UNCHANGED <<sc_mapping, sc_schema, script, command>>
    /\ UNCHANGED scframe

\* field_mapping = <Module>.create_safe_field_mapping(layer.fields(), ...)
ScMap ==
    /\ sc_pc = "called"
    /\ sc_mapping' =
          CASE request.kind = "GWR" ->
                 create_safe_field_mapping(request.layer, SelectedFields(request))
            [] request.kind = "MGWR" ->
                 MGWR_create_safe_field_mapping(request.layer, SelectedFields(request))
            [] request.kind = "LISA" ->
                 LISA_create_safe_field_mapping(request.layer, SelectedFields(request))
    /\ sc_pc' = "mapped"
    /\ UNCHANGED <<request, sc_schema, script, command>>
    /\ UNCHANGED scframe

\* export_layer_with_field_mapping(layer, input_shp, field_mapping), when it
\* returns success: the dataset holds new_fields under the names stored.
ScExport ==
    /\ sc_pc = "mapped"
    /\ sc_schema' = Stored(Renamed(request.layer, sc_mapping, Len(request.layer)))
    /\ sc_pc' = "exported"
    /\ UNCHANGED <<request, sc_mapping, script, command>>
    /\ UNCHANGED scframe

\* variable2_shp = field_mapping[variable2] if variable2 else None
Variable2Shp(fm, variable2) == IF Truthy(variable2) THEN fm[variable2] ELSE NoneName

\* The names are adapted (dependent_var_shp = field_mapping[dependent_var],
\* independent_vars_shp = [field_mapping[v] for v in independent_vars]) and
\* write_r_script_to_file is called; the LISA writer raises when it
\* concatenates None, and run_analysis returns (None, "Erreur: ...").
ScWrite ==
    /\ sc_pc = "exported"
    /\ LET fm == sc_mapping
           req == request
           input == Join(ScriptDir, "input.shp")
           output == Join(ScriptDir, "output.shp")
       IN  CASE req.kind = "GWR" ->
                  /\ script' = GWR_write_r_script_to_file(input, output,
                        fm[req.dependent_var],
                        [i \in 1..Len(req.independent_vars) |-> fm[req.independent_vars[i]]],
                        KernelName(req.kernel_type), Approach(req.bandwidth_type),
                        req.adaptive, req.bandwidth_value, req.neighbors,
                        req.standardize, req.robust)
                  /\ sc_pc' = "scripted"
             [] req.kind = "MGWR" ->
                  /\ script' = MGWR_write_r_script_to_file(input, output,
                        fm[req.dependent_var],
                        [i \in 1..Len(req.independent_vars) |-> fm[req.independent_vars[i]]],
                        KernelName(req.kernel_type), req.adaptive, req.standardize,
                        req.criterion, req.max_iter, req.tolerance)
                  /\ sc_pc' = "scripted"
             [] req.kind = "LISA" ->
                  IF ConcatRaises(req.analysis_type, Variable2Shp(fm, req.variable2))
                  THEN /\ UNCHANGED script
                       /\ sc_pc' = "returned"
                  ELSE /\ script' = LISA_write_r_script_to_file(input, output,
                             req.analysis_type, fm[req.variable],
                             Variable2Shp(fm, req.variable2), req.contiguity_type,
                             req.order, req.standardize_weights, req.significance,
                             req.standardize_var)
                       /\ sc_pc' = "scripted"
    /\ UNCHANGED <<request, sc_mapping, sc_schema, command>>
    /\ UNCHANGED scframe

\* subprocess.run(<command>, ...): the engine is spawned, or, its first
\* argument being None, the call raises TypeError and run_analysis returns
\* (None, "Erreur: ...").
ScSpawn ==
    /\ sc_pc = "scripted"
    /\ LET cmd == Command(request.kind, request.r_path,
                          Join(ScriptDir, ScriptName(request.kind)))
       IN  IF cmd[1] = None
           THEN /\ UNCHANGED command
                /\ sc_pc' = "returned"
           ELSE /\ command' = cmd
                /\ sc_pc' = "spawned"
    /\ UNCHANGED <<request, sc_mapping, sc_schema, script>>
    /\ UNCHANGED scframe

NextScript == ScCall \/ ScMap \/ ScExport \/ ScWrite \/ ScSpawn

(***************************************************************************)
(* The three copies of create_safe_field_mapping given the same lists.     *)
(***************************************************************************)
NoInput == [layer |-> <<>>, selected |-> <<>>]

InitCopies ==
    /\ copy_in = NoInput
    /\ copies = [k \in {} |-> EmptyMap]

\* The lists are chosen: any field list and any ordered selected list.
CopyInput ==
    /\ copy_in = NoInput
    /\ \E in \in CopyInputs : copy_in' = in
    /\ UNCHANGED copies
    /\ UNCHANGED cmpframe

\* The copy of one module is called on the lists.
CopyCall(k) ==
    /\ copy_in # NoInput
    /\ k \notin DOMAIN copies
    /\ copies' = copies @@ (k :> CopyOf(k, copy_in.layer, copy_in.selected))
    /\ UNCHANGED copy_in
    /\ UNCHANGED cmpframe

NextCopies == CopyInput \/ \E k \in Kinds : CopyCall(k)

(***************************************************************************)
(* The plugin: the dialogs with the engine path they load from and save to *)
(* config.ini, and the launch methods run_gwr_analysis, run_mgwr_analysis  *)
(* and run_lisa_analysis.  A path is a text of characters; the file holds  *)
(* the bytes of the value of key "path" in section "R".                    *)
(***************************************************************************)
\* dialog.r_path when nothing is configured.
NonePath == <<"None">>

\* The file config.ini does not exist.
NoConfig == <<"absent">>

\* The paths the file chooser can return: existing files, in folders with
\* plain names, with an accented name, with a percent sign in the name.
ChooserPaths ==
    {<<"a", "/", "R">>, <<"b", "/", "R">>, <<"é", "/", "R">>,
     <<"%", "/", "R">>, <<"%", "%", "/", "R">>}

\* BasicInterpolation.before_set: value.replace('%%', '')
RECURSIVE StripEscapes(_)
StripEscapes(value) ==
    IF Len(value) = 0 THEN <<>>
    ELSE IF Len(value) >= 2 /\ value[1] = "%" /\ value[2] = "%"
         THEN StripEscapes(SubSeq(value, 3, Len(value)))
         ELSE <<value[1]>> \o StripEscapes(SubSeq(value, 2, Len(value)))

\* config["R"] = {"path": path} raises ValueError (invalid interpolation
\* syntax) when a '%' is left once the '%%' pairs are taken out.
SetRaises(value) == "%" \in Range(StripEscapes(value))

\* open(CONFIG_FILE, "w", encoding="utf-8"): the bytes of a text.
RECURSIVE EncodeUtf8(_)
EncodeUtf8(text) ==
    IF Len(text) = 0 THEN <<>>
    ELSE (IF text[1] = "é" THEN <<"0xC3", "0xA9">> ELSE <<text[1]>>)
             \o EncodeUtf8(SubSeq(text, 2, Len(text)))

\* The encodings config.read(CONFIG_FILE) decodes with: that of the locale.
LocaleEncodings == {"utf-8", "cp1252"}

\* The text of bytes under an encoding.
RECURSIVE Decode(_, _)
Decode(bytes, encoding) ==
    IF Len(bytes) = 0 THEN <<>>
    ELSE IF encoding = "utf-8" /\ Len(bytes) >= 2 /\ bytes[1] = "0xC3" /\ bytes[2] = "0xA9"
         THEN <<"é">> \o Decode(SubSeq(bytes, 3, Len(bytes)), encoding)
         ELSE (CASE bytes[1] = "0xC3" -> <<"Ã">>
                 [] bytes[1] = "0xA9" -> <<"©">>
                 [] OTHER -> <<bytes[1]>>)
                  \o Decode(SubSeq(bytes, 2, Len(bytes)), encoding)

\* config["R"]["path"]: BasicInterpolation.before_get turns '%%' into '%'.
RECURSIVE Interpolate(_)
Interpolate(value) ==
    IF Len(value) = 0 THEN <<>>
    ELSE IF Len(value) >= 2 /\ value[1] = "%" /\ value[2] = "%"
         THEN <<"%">> \o Interpolate(SubSeq(value, 3, Len(value)))
         ELSE <<value[1]>> \o Interpolate(SubSeq(value, 2, Len(value)))

\* load_r_path: None without a file, else the value of the key read back.
load_r_path(file, encoding) ==
    IF file = NoConfig THEN NonePath ELSE Interpolate(Decode(file, encoding))

\* save_r_path: the file after the call, and whether the call raised.
save_r_path(file, path) ==
    IF SetRaises(path)
    THEN [file |-> file, raised |-> TRUE]
    ELSE [file |-> EncodeUtf8(path), raised |-> FALSE]

\* The position of the last "/" of a path, 0 without one.
RECURSIVE LastSlash(_, _)
LastSlash(path, i) == IF i = 0 \/ path[i] = "/" THEN i ELSE LastSlash(path, i - 1)

\* os.path.dirname(path)
dirname(path) == SubSeq(path, 1, LastSlash(path, Len(path)) - 1)

\* The value of PATH when the plugin is loaded.
InitialPath == <<"PATH">>

\* os.environ["PATH"] += ";" + os.path.dirname(dialog.r_path)
AppendPath(value, r_path) == value \o <<";">> \o dirname(r_path)

\* The number of positional arguments the launch method passes.
Passed(kind) == CASE kind = "GWR" -> 11 [] kind = "MGWR" -> 10 [] kind = "LISA" -> 10

\* The number of parameters run_analysis declares.
Declared(kind) == CASE kind = "GWR" -> 10 [] kind = "MGWR" -> 10 [] kind = "LISA" -> 9

\* The number of components of the tuples run_analysis returns.
Returned(kind) == 2

\* The number of names the launch method unpacks the result into:
\* result_layer, message, temp_folder.
Unpacked(kind) == 3

\* The call is inside try/except Exception.
Guarded(kind) == kind = "LISA"

\* The exception the call statement raises, None when it raises none.
CallRaises(kind) ==
    IF Passed(kind) # Declared(kind) THEN "TypeError"
    ELSE IF Returned(kind) # Unpacked(kind) THEN "ValueError"
    ELSE None

NoLoad == [got |-> NonePath, last |-> NonePath, file |-> NoConfig]

InitPlugin ==
    /\ pl_pc = "idle"
    /\ pl_kind = None
    /\ dlg_r_path = NonePath
    /\ config_file = NoConfig
    /\ env_PATH = InitialPath
    /\ progress = "none"
    /\ outcome = "none"
    /\ raised = None
    /\ launches = 0
    /\ chosen = NonePath
    /\ loaded = NoLoad
    /\ last_event = "none"

\* dialog = <Kind>AnalysisDialog(): __init__ sets self.r_path =
\* self.load_r_path().
PlOpen(k) ==
    /\ pl_pc = "idle"
    /\ launches < MaxLaunches
    /\ \E encoding \in LocaleEncodings :
          LET got == load_r_path(config_file, encoding)
          IN  /\ dlg_r_path' = got
              /\ loaded' = [got |-> got, last |-> chosen, file |-> config_file]
    /\ pl_kind' = k
    /\ pl_pc' = "dialog"
    /\ last_event' = "opened"
    /\ UNCHANGED <<config_file, env_PATH, progress, outcome, raised, launches, chosen>>
    /\ UNCHANGED plframe

\* choose_r_path with a path accepted in the chooser: self.r_path and the
\* label are set, then save_r_path writes the file or raises.
PlChoose(p) ==
    /\ pl_pc = "dialog"
    /\ dlg_r_path' = p
    /\ chosen' = p
    /\ LET saved == save_r_path(config_file, p)
       IN  /\ config_file' = saved.file
           /\ last_event' = IF saved.raised THEN "save raised" ELSE "saved"
    /\ UNCHANGED <<pl_pc, pl_kind, env_PATH, progress, outcome, raised, launches, loaded>>
    /\ UNCHANGED plframe

\* choose_r_path with the chooser cancelled: path is "" and nothing is done.
PlChooseCancelled ==
    /\ pl_pc = "dialog"
    /\ last_event' = "cancelled"
    /\ UNCHANGED <<pl_pc, pl_kind, dlg_r_path, config_file, env_PATH, progress, outcome,
                   raised, launches, chosen, loaded>>
    /\ UNCHANGED plframe

\* dialog.exec_() returns false: the launch method does nothing more.
PlReject ==
    /\ pl_pc = "dialog"
    /\ pl_pc' = "idle"
    /\ last_event' = "rejected"
    /\ UNCHANGED <<pl_kind, dlg_r_path, config_file, env_PATH, progress, outcome, raised,
                   launches, chosen, loaded>>
    /\ UNCHANGED plframe

\* dialog.exec_() returns true with selections the validation refuses: a
\* warning box, and the launch method returns.
PlRefuse ==
    /\ pl_pc = "dialog"
    /\ pl_pc' = "idle"
    /\ outcome' = "warning"
    /\ raised' = None
    /\ last_event' = "refused"
    /\ UNCHANGED <<pl_kind, dlg_r_path, config_file, env_PATH, progress, launches,
                   chosen, loaded>>
    /\ UNCHANGED plframe

\* dialog.exec_() returns true with valid selections: PATH is extended when
\* dialog.r_path is set, the progress dialog is shown, and run_analysis is
\* called.  An exception of the call statement leaves the method at once
\* (GWR, MGWR) or is caught, the progress dialog closed and an error box
\* shown (LISA); without one the progress dialog is closed and the result
\* goes to process_results or, being None, to the error box.
PlLaunch ==
    /\ pl_pc = "dialog"
    /\ env_PATH' = IF dlg_r_path # NonePath /\ dlg_r_path # <<>>
                   THEN AppendPath(env_PATH, dlg_r_path) ELSE env_PATH
    /\ LET exception == CallRaises(pl_kind)
       IN  IF exception # None
           THEN IF Guarded(pl_kind)
                THEN /\ progress' = "closed"
                     /\ outcome' = "error box of the exception"
                     /\ raised' = None
                ELSE /\ progress' = "shown"
                     /\ outcome' = "none"
                     /\ raised' = exception
           ELSE /\ progress' = "closed"
                /\ \E o \in {"process_results", "error box of the message"} : outcome' = o
                /\ raised' = None
    /\ launches' = launches + 1
    /\ pl_pc' = "idle"
    /\ last_event' = "launched"
    /\ UNCHANGED <<pl_kind, dlg_r_path, config_file, chosen, loaded>>
    /\ UNCHANGED plframe

NextPlugin ==
    \/ \E k \in Kinds : PlOpen(k)
    \/ \E p \in ChooserPaths : PlChoose(p)
    \/ PlChooseCancelled
    \/ PlReject
    \/ PlRefuse
    \/ PlLaunch

Next ==
    \E r \in Runs :
        \/ Start(r)
        \/ Export(r)
        \/ WriteScript(r)
        \/ Spawn(r)
        \/ ChildExits(r)
        \/ TimeoutExpires(r)
        \/ ReturnEngineError(r)
        \/ LoadResult(r)
        \/ Cleanup(r)

\* The initial state of the parts added to the three above.
InitAdded == InitJobs /\ InitScript /\ InitCopies /\ InitPlugin

Init == InitMapping("single") /\ InitRuns /\ InitExport /\ InitAdded

InitCalls == InitMapping("repeat") /\ InitRuns /\ InitExport /\ InitAdded

InitLive == InitMapping("collide") /\ InitRuns /\ InitExport /\ InitAdded

\* Calls of run_analysis.
Spec == Init /\ [][Next]_vars

\* The steps run_analysis takes by itself once called.  The engine's own
\* exit is not among them: nothing makes the engine exit.
RunStep(r) ==
    \/ Export(r)
    \/ WriteScript(r)
    \/ Spawn(r)
    \/ TimeoutExpires(r)
    \/ ReturnEngineError(r)
    \/ LoadResult(r)
    \/ Cleanup(r)

\* Either one call of run_analysis is followed, from its start to its
\* return, or a call of create_safe_field_mapping is.
NextLive ==
    \/ /\ map_pc = "idle"
       /\ Next
       /\ \A r \in Runs : r # 1 => run_pc'[r] = "idle"
    \/ (\A r \in Runs : run_pc[r] = "idle") /\ NextMap

\* A called function keeps executing: the interpreter runs its next
\* statement, and the clock of subprocess.run's timeout advances.
Fairness == \A r \in Runs : WF_vars(RunStep(r))

SpecLive == InitLive /\ [][NextLive]_vars /\ Fairness

\* Calls of run_analysis overlapping in time, with the files they touch.
SpecOverlap == Init /\ [][NextJobs]_vars

\* One call followed from its arguments to the command it spawns.
SpecScript == Init /\ [][NextScript]_vars

\* The three copies of create_safe_field_mapping on the same lists.
SpecCopies == Init /\ [][NextCopies]_vars

\* The dialogs and the launches of the plugin.
SpecPlugin == Init /\ [][NextPlugin]_vars

\* export_layer_with_field_mapping applied to one layer at a time.
SpecExport == Init /\ [][NextExport]_vars

\* create_safe_field_mapping applied to one input at a time.
SpecMap == Init /\ [][NextMap]_vars

\* create_safe_field_mapping called again and again, an earlier call remembered.
SpecCalls == InitCalls /\ [][NextMap]_vars

(***************************************************************************)
(* Claims about run_analysis.                                              *)
(***************************************************************************)
Last(t) == t[Len(t)]

C2_ResultDetached ==
    \A r \in Runs :
        (run_pc[r] = "returned" /\ retval[r].layer # NoLayer) =>
            \/ retval[r].layer.backing = "memory"
            \/ retval[r].layer.dir \in dirs

\* C3: within one run the export completes before the engine is spawned,
\* the engine has exited before the output dataset is opened, and nothing
\* follows the removal of the working directory; no stage happens twice.
C3_StageOrder ==
    \A r \in Runs :
        LET t == trace[r]
        IN  \A j \in 1..Len(t) :
                /\ t[j] = "spawn" => \E i \in 1..(j - 1) : t[i] = "export_done"
                /\ t[j] = "exit" => \E i \in 1..(j - 1) : t[i] = "spawn"
                /\ t[j] = "open" => \E i \in 1..(j - 1) : t[i] = "exit"
                /\ t[j] = "rmtree" => j = Len(t)
                /\ \A i \in 1..(j - 1) : t[i] # t[j]

\* A run went through all five stages.
C3_Witness ==
    \E r \in Runs :
        trace[r] = <<"export_done", "script", "spawn", "exit", "open", "rmtree">>

(***************************************************************************)
(* Claims about create_safe_field_mapping.                                 *)
(***************************************************************************)

\* C4: the mapping a call returns is injective: no two distinct original
\* field names are mapped to the same short name.
C4_Injective ==
    map_pc = "returned" =>
        \A a, b \in DOMAIN field_mapping : a # b => field_mapping[a] # field_mapping[b]

\* C5: every short name of the mapping a call returns is at most 10
\* characters long, also when the collision counter reaches two digits.
C5_AtMostTenChars ==
    map_pc = "returned" => \A a \in DOMAIN field_mapping : Len(field_mapping[a]) <= 10

\* C6: a call in which a field found its truncation and all 98 candidates
\* _1 .. _98 taken fails; it never returns a mapping.
C6_ExhaustionFails == ~(map_pc = "returned" /\ exhausted)

\* The candidates {first 8 chars}_{n}, n in 1..98, that a used set leaves free.
FreeCounters(name, used) ==
    {n \in 1..98 : SubSeq(name, 1, Min(8, Len(name))) \o <<"_">> \o Dec(n) \notin used}

\* C7: an iteration gives a name whose first 10 characters are unused exactly
\* those characters, and a name whose first 10 characters are used the
\* candidate {first 8 chars}_{n} of the smallest n in 1..98 whose candidate
\* is unused; [population_density, population_growth] yields "population"
\* and "populati_1".
C7_ProbeRule ==
    /\ last_step.done =>
          LET first10 == SubSeq(last_step.name, 1, Min(10, Len(last_step.name)))
              free == FreeCounters(last_step.name, last_step.used)
          IN  /\ first10 \notin last_step.used => last_step.short = first10
              /\ (first10 \in last_step.used /\ free # {}) =>
                    \E n \in free :
                        /\ \A m \in free : n <= m
                        /\ last_step.short =
                              SubSeq(first10, 1, Min(8, Len(first10))) \o <<"_">> \o Dec(n)
    /\ (map_pc = "returned" /\ selected_fields = <<population_density, population_growth>>) =>
          /\ field_mapping[population_density] = population
          /\ field_mapping[population_growth] = populati_1

\* An iteration resolved a collision past a candidate that was already taken.
C7_Witness ==
    /\ last_step.done
    /\ population \in last_step.used
    /\ populati_1 \in last_step.used
    /\ last_step.short = <<"p", "o", "p", "u", "l", "a", "t", "i", "_", "2">>

\* C8: a call returns the mapping an earlier call with the same dataset
\* field order and the same selected list returned, whatever was called in
\* between.
C8_Deterministic ==
    (/\ map_pc = "returned"
     /\ history.called
     /\ history.layer = layer_fields
     /\ history.selected = selected_fields) => history.mapping = field_mapping

\* A call has returned for the input of a remembered earlier call.
C8_Witness ==
    /\ map_pc = "returned"
    /\ history.called
    /\ history.layer = layer_fields
    /\ history.selected = selected_fields
    /\ Len(layer_fields) = 3
    /\ \E a \in DOMAIN field_mapping : field_mapping[a] = populati_1 /\ a # populati_1

\* C9: the mapping a call returns has every dataset field name and every
\* selected field name as a key.
C9_Total ==
    map_pc = "returned" =>
        DOMAIN field_mapping = Range(layer_fields) \cup Range(selected_fields)

\* A call has returned for a dataset with a non-selected field whose first 10
\* characters were already given out.
C9_Witness ==
    /\ map_pc = "returned"
    /\ \E a \in Range(layer_fields) \ Range(selected_fields) :
          /\ a \in DOMAIN field_mapping
          /\ field_mapping[a] # SubSeq(a, 1, Min(10, Len(a)))

\* C10: the short name of a selected field depends only on the selected
\* fields before it: two calls whose selected lists agree up to a position
\* give the field at that position the same short name, whatever the
\* dataset's other fields are, and the first selected field gets its plain
\* 10-character truncation.
C10_SelectedFirst ==
    map_pc = "returned" =>
        /\ field_mapping[selected_fields[1]] =
              SubSeq(selected_fields[1], 1, Min(10, Len(selected_fields[1])))
        /\ history.called =>
              \A k \in 1..Min(Len(selected_fields), Len(history.selected)) :
                  SubSeq(selected_fields, 1, k) = SubSeq(history.selected, 1, k) =>
                      field_mapping[selected_fields[k]] = history.mapping[selected_fields[k]]

\* Two calls with the same selected list and different dataset field lists,
\* the later one with a non-selected field ahead of the selected ones.
C10_Witness ==
    /\ map_pc = "returned"
    /\ history.called
    /\ history.selected = selected_fields
    /\ Len(selected_fields) = 2
    /\ history.layer # layer_fields
    /\ layer_fields[1] \notin Range(selected_fields)
    /\ field_mapping[selected_fields[2]] = populati_1

(***************************************************************************)
(* Claims about the outcome of run_analysis.                               *)
(***************************************************************************)
Count(t, e) == Cardinality({j \in 1..Len(t) : t[j] = e})

\* The engine of run r exited by itself, with an exit code.
Exited(r) == returncode[r] # NoCode

\* The wait for the engine of run r was ended by the timeout.
TimedOut(r) == child[r] = "exited" /\ returncode[r] = NoCode

\* The return value of run r has been evaluated.
Decided(r) == run_pc[r] \in {"finally", "returned"}

\* C11: the exit code classifies the outcome: a result is returned only
\* after exit code 0, and then the message is the engine's stdout alone,
\* stderr not included; after any non-zero exit code no result is returned
\* and the message holds both the captured stderr and the captured stdout.
C11_ExitCodeClassifies ==
    \A r \in Runs :
        Decided(r) =>
            /\ retval[r].layer # NoLayer =>
                  /\ Exited(r) /\ returncode[r] = 0
                  /\ MessageParts(retval[r].message) = {"stdout"}
            /\ (Exited(r) /\ returncode[r] = 0) =>
                  retval[r].message \notin {"engine_error", "timeout"}
            /\ (Exited(r) /\ returncode[r] # 0) =>
                  /\ retval[r].layer = NoLayer
                  /\ {"stderr", "stdout"} \subseteq MessageParts(retval[r].message)

\* A run has returned the outcome of an engine that exited with code 2.
C11_Witness ==
    \E r \in Runs :
        /\ run_pc[r] = "returned"
        /\ returncode[r] = 2
        /\ retval[r].message = "engine_error"

\* C12: a run whose engine had not exited within the timeout returns a
\* timeout outcome, distinct from the outcome of a non-zero exit, and when
\* run_analysis has returned neither the child process nor any process the
\* child started is still running.
C12_NothingLeftRunning ==
    \A r \in Runs :
        /\ (Decided(r) /\ TimedOut(r)) =>
              /\ retval[r] = [layer |-> NoLayer, message |-> "timeout"]
              /\ retval[r].message # "engine_error"
        /\ run_pc[r] = "returned" =>
              /\ child[r] # "running"
              /\ descendants[r] # "running"

\* C14: within one run_analysis call the engine is spawned at most once:
\* after a non-zero exit or a timeout the run returns that outcome and the
\* engine is not spawned again.
C14_SpawnedAtMostOnce ==
    \A r \in Runs :
        /\ Count(trace[r], "spawn") <= 1
        /\ (Decided(r) /\ Exited(r) /\ returncode[r] # 0) =>
              /\ retval[r] = [layer |-> NoLayer, message |-> "engine_error"]
              /\ child[r] = "exited"
        /\ (Decided(r) /\ TimedOut(r)) =>
              /\ retval[r] = [layer |-> NoLayer, message |-> "timeout"]
              /\ child[r] = "exited"

\* A run has returned the outcome of a failed engine it spawned once.
C14_Witness ==
    \E r \in Runs :
        /\ run_pc[r] = "returned"
        /\ Count(trace[r], "spawn") = 1
        /\ returncode[r] = 1
        /\ retval[r].message = "engine_error"

\* Every stage of run r did what it is there for: the export wrote every
\* feature, the engine exited with code 0 within the timeout, and output.shp
\* is a readable dataset with features.
AllStagesSucceeded(r) ==
    /\ input_shp[r] = "complete"
    /\ Exited(r) /\ returncode[r] = 0
    /\ output_shp[r] = "valid"

\* The kind of failure the facts of run r show, first failing stage first.
FailureKind(r) ==
    CASE input_shp[r] # "complete" -> "export_error"
      [] TimedOut(r) -> "timeout"
      [] Exited(r) /\ returncode[r] # 0 -> "engine_error"
      [] Exited(r) /\ output_shp[r] # "valid" -> "load_error"
      [] OTHER -> "exception"

\* C15: run_analysis returns a result layer exactly when every stage
\* succeeded; on every other path it returns no result, with a message that
\* names the kind of failure that occurred.
C15_ResultIffAllStages ==
    \A r \in Runs :
        run_pc[r] = "returned" =>
            /\ retval[r].layer # NoLayer <=> AllStagesSucceeded(r)
            /\ ~AllStagesSucceeded(r) => retval[r].message = FailureKind(r)

\* C16: the first failing stage ends the pipeline: after a failed export no
\* script is written and the engine is not spawned; after a non-zero exit or
\* a timeout the output dataset is not opened; the outcome is that of the
\* first failing stage and nothing but the cleanup follows it.
C16_FirstFailureEnds ==
    \A r \in Runs :
        /\ (run_pc[r] # "idle" /\ run_pc[r] # "try" /\ input_shp[r] # "complete") =>
              /\ Count(trace[r], "script") = 0
              /\ Count(trace[r], "spawn") = 0
              /\ retval[r].message = "export_error"
        /\ (TimedOut(r) \/ (Exited(r) /\ returncode[r] # 0)) =>
              Count(trace[r], "open") = 0

\* C19: a run whose engine exited with code 0 and whose output.shp is
\* missing, unreadable or without any feature returns a result-load failure
\* and no result.
C19_InvalidOutputRejected ==
    \A r \in Runs :
        (run_pc[r] = "returned" /\ Exited(r) /\ returncode[r] = 0
            /\ output_shp[r] # "valid") =>
                retval[r] = [layer |-> NoLayer, message |-> "load_error"]

\* C20: the removal of the working directory never changes the outcome: the
\* step from the finally clause to the return leaves the value to return as
\* it was, whether rmtree removed the directory or raised, and what rmtree
\* raises ends in that return and nowhere else.
C20_RemovalKeepsOutcome ==
    [][\A r \in Runs :
          run_pc[r] = "finally" =>
              /\ retval'[r] = retval[r]
              /\ run_pc'[r] \in {"finally", "returned"}]_vars

\* A run has returned its result although the removal raised.
C20_Witness ==
    \E r \in Runs :
        /\ run_pc[r] = "returned"
        /\ rmtree_failed[r]
        /\ temp_dir[r] \in dirs
        /\ retval[r] = [layer |-> FileLayer(temp_dir[r]), message |-> "stdout"]

(***************************************************************************)
(* Termination.                                                            *)
(***************************************************************************)
\* C13: every call of run_analysis eventually returns, also when the engine
\* never exits by itself, for the timeout ends the wait; and the probing
\* loop of create_safe_field_mapping ends, for each field, with the counter
\* at 99 at most, that is after at most 98 iterations.
C13_EventuallyReturns ==
    /\ \A r \in Runs : (run_pc[r] # "idle") ~> (run_pc[r] = "returned")
    /\ [](last_step.done =>
            LET first10 == SubSeq(last_step.name, 1, Min(10, Len(last_step.name)))
            IN  first10 \in last_step.used =>
                    \E n \in 1..99 :
                        last_step.short =
                            SubSeq(first10, 1, Min(8, Len(first10))) \o <<"_">> \o Dec(n))

\* A run whose wait was ended by the timeout has returned.
C13_Witness ==
    \E r \in Runs : run_pc[r] = "returned" /\ TimedOut(r)

(***************************************************************************)
(* Claims about export_layer_with_field_mapping.                           *)
(***************************************************************************)
\* C17: an export that returned success for a layer with N features whose
\* field names are all keys of the mapping has written exactly N features
\* and a schema whose field names are, in the layer's field order, the
\* mapping's values; every written feature holds at each field position the
\* value the source feature holds there.
C17_RoundTrip ==
    (/\ exp_pc = "returned"
     /\ exp_ret.success = TRUE
     /\ Range(exp_layer.fields) \subseteq DOMAIN exp_mapping) =>
        /\ Len(shapefile.features) = exp_layer.count
        /\ shapefile.fields = [i \in 1..Len(exp_layer.fields) |-> exp_mapping[exp_layer.fields[i]]]
        /\ \A f \in 1..Len(shapefile.features) :
              shapefile.features[f] = [i \in 1..Len(exp_layer.fields) |-> Value(f, i)]

\* C18: the export returns (False, error text) when the shapefile cannot be
\* created and when a feature cannot be appended; it never returns success
\* after an addFeature failed.
C18_AppendFailureReported ==
    exp_pc = "returned" =>
        /\ ~shapefile.exists => (exp_ret.success = FALSE /\ exp_ret.error # None)
        /\ add_failed => (exp_ret.success = FALSE /\ exp_ret.error # None)

(***************************************************************************)
(* Claims about overlapping run_analysis calls.                            *)
(***************************************************************************)
\* C21: two run_analysis calls that overlap in time, of the same or of
\* different kinds, hold distinct working directories, and every file
\* operation of a call (on its input, its output, its script or its
\* directory) is on a path inside its own directory, which no other running
\* call holds.
C21_RunsIsolated ==
    /\ \A j, o \in Jobs :
          (j # o /\ Running(j) /\ Running(o)) => job_dir[j] # job_dir[o]
    /\ \A j \in Jobs : \A a \in accesses[j] :
          /\ a.path[1] = job_dir[j]
          /\ ~a.shared

\* Two calls of different kinds overlap, one reading its input while the
\* other removes its directory.
C21_Witness ==
    \E j, o \in Jobs :
        /\ j # o
        /\ job_kind[j] # job_kind[o]
        /\ Running(j)
        /\ \E a \in accesses[j] : a.op = "read" /\ a.path[2] = "input.shp"
        /\ job_pc[o] = "returned"
        /\ \E a \in accesses[o] : a.op = "delete"

(***************************************************************************)
(* Claims about the generated script and the command spawned.              *)
(***************************************************************************)
\* The script of the call followed has been written.
Written == sc_pc \in {"scripted", "spawned"} \/ (sc_pc = "returned" /\ script # NoScript)

\* The optional argument of the call followed is absent: a GWR call with a
\* manual bandwidth (no approach), a univariate LISA call without variable2.
OptionalAbsent ==
    \/ request.kind = "GWR" /\ request.bandwidth_type \notin {1, 2}
    \/ /\ request.kind = "LISA"
       /\ request.analysis_type = "univariate"
       /\ ~Truthy(request.variable2)

\* C22: when the optional argument is absent (GWR with a manual bandwidth,
\* LISA univariate without variable2), the script written holds no
\* interpolated None, no empty variable list and, for LISA, no name but the
\* first variable's; and the LISA call does not end in the writer.
C22_AbsentNeverInterpolated ==
    (sc_pc \notin {"idle", "called", "mapped", "exported"} /\ OptionalAbsent) =>
        /\ Written
        /\ None \notin Range(script.slots)
        /\ StrName(NoneName) \notin Range(script.names)
        /\ \A i \in 1..Len(script.lists) :
              /\ script.lists[i] # <<>>
              /\ StrName(NoneName) \notin Range(script.lists[i])
        /\ request.kind = "LISA" => Range(script.names) = {sc_mapping[request.variable]}

\* A univariate LISA call without variable2, with the variable standardized,
\* has written its script and spawned the engine.
C22_Witness ==
    /\ sc_pc = "spawned"
    /\ request.kind = "LISA"
    /\ request.analysis_type = "univariate"
    /\ request.variable2 = NoneName
    /\ request.standardize_var
    /\ Len(script.names) > 0

(***************************************************************************)
(* Claims about the plugin's dialogs and launch methods.                   *)
(***************************************************************************)
\* C23: launching an analysis from the plugin leaves the process
\* environment, PATH included, as it was: after any number of launches
\* PATH has the value it had when the plugin was loaded.
C23_EnvironmentUnchanged == env_PATH = InitialPath

\* C24: a dialog constructed after a chooser accepted the path p loads p
\* (the last path accepted wins); a dialog constructed while there is no
\* file loads None; a cancelled chooser changes neither the dialog's r_path
\* nor the file.
C24_RoundTrip ==
    /\ [](loaded.last # NonePath => loaded.got = loaded.last)
    /\ [](loaded.file = NoConfig => loaded.got = NonePath)
    /\ [][last_event' = "cancelled" =>
            (dlg_r_path' = dlg_r_path /\ config_file' = config_file)]_vars

\* C26: a launch with valid selections ends without an exception, with the
\* progress dialog closed and the module's outcome handed to
\* process_results or shown in the error box.
C26_LaunchCompletes ==
    last_event = "launched" =>
        /\ raised = None
        /\ progress = "closed"
        /\ outcome \in {"process_results", "error box of the message"}

\* C25: the executable a run_analysis call spawns is the engine path the
\* user configured, as the caller holds it; no kind spawns a fixed name.
C25_SpawnsConfiguredPath ==
    sc_pc = "spawned" => command[1] = request.r_path

\* The names the script of the call followed refers to.
ScriptNames == Range(script.names) \cup UNION {Range(script.lists[i]) : i \in 1..Len(script.lists)}

\* The positions of the exported dataset's fields that bear a name.
Columns(name) == {j \in 1..Len(sc_schema) : sc_schema[j] = name}

\* C27: every name the script refers to is the name of exactly one field of
\* the exported dataset; for each selected variable v of the dataset the
\* script refers to field_mapping[v], and the one exported field of that
\* name is the field of v.
C27_ScriptNamesExported ==
    sc_pc \in {"scripted", "spawned"} =>
        /\ \A n \in ScriptNames : Cardinality(Columns(n)) = 1
        /\ \A v \in Range(SelectedFields(request)) \cap Range(request.layer) :
              /\ sc_mapping[v] \in ScriptNames
              /\ Columns(sc_mapping[v]) = {FieldIndex(request.layer, v)}

(***************************************************************************)
(* Claims about the copies of create_safe_field_mapping.                   *)
(***************************************************************************)
\* C28: given the same dataset field list and the same ordered selected
\* list, the copies of create_safe_field_mapping of the GWR, MGWR and LISA
\* modules return the same mapping.
C28_CopiesEquivalent ==
    \A j, k \in DOMAIN copies : copies[j] = copies[k]

\* The three copies were called on a dataset whose second field is selected
\* first and collides with the first field after truncation.
C28_Witness ==
    /\ DOMAIN copies = Kinds
    /\ Len(copy_in.layer) >= 2
    /\ copy_in.selected[1] = copy_in.layer[2]
    /\ Take(copy_in.layer[1], TruncWidth) = Take(copy_in.layer[2], TruncWidth)
    /\ copies["LISA"][copy_in.layer[1]] # Take(copy_in.layer[1], TruncWidth)

(***************************************************************************)
(* Claims about the bandwidth and criterion the scripts hold.              *)
(***************************************************************************)
\* C29: in the GWR script bandwidth_type 1 selects the approach CV, 2 the
\* approach AIC, any other value a manual bandwidth; the manual bandwidth
\* written is the neighbor count when adaptive is true and the bandwidth
\* value when it is false; with an approach selected neither of the two
\* values appears in the script.
C29_BandwidthSelection ==
    (sc_pc \in {"scripted", "spawned"} /\ request.kind = "GWR") =>
        LET value == StrNumber(request.bandwidth_value)
            count == StrNumber(request.neighbors)
        IN  IF request.bandwidth_type \in {1, 2}
            THEN /\ script.slots.bw_call = "bw.gwr"
                 /\ script.slots.bw_approach =
                        (IF request.bandwidth_type = 1 THEN "CV" ELSE "AIC")
                 /\ value \notin Range(script.slots)
                 /\ count \notin Range(script.slots)
            ELSE /\ script.slots.bw_call = "bw <-"
                 /\ script.slots.bw_value = (IF request.adaptive THEN count ELSE value)

\* A GWR script with a manual adaptive bandwidth holds "bw <- 50".
C29_Witness ==
    /\ sc_pc = "scripted"
    /\ request.kind = "GWR"
    /\ request.bandwidth_type = 3
    /\ request.adaptive
    /\ script.slots.bw_value = "50"

====
